---- MODULE Spec2Model ----
(***************************************************************************)
(* A model of multiproc.py: run() executes a function once per element of  *)
(* an argument list in a multiprocessing.Pool of worker processes, with    *)
(* each task's console output buffered in a temporary file and written to  *)
(* the real stdout when the task has finished.                             *)
(*                                                                         *)
(* The coordinator (run, lines 26-45) is a program counter over its        *)
(* statements.  Every worker process runs _run/_runBuffered (lines 47-88)  *)
(* for the tasks it takes from the pool's queue.  The user function is     *)
(* the family of test functions of the unit tests (lines 133-147).         *)
(*                                                                         *)
(* Python delivers SIGINT to the main thread as KeyboardInterrupt when the *)
(* default handler is installed and discards it under SIG_IGN.  A signal   *)
(* is modelled as arriving while a statement of run executes; the effect   *)
(* of the interrupted statement may or may not have happened.              *)
(* For the argument lists explored here map_async puts one task in each    *)
(* chunk (chunksize is 1 while len(argList) <= 4 * nproc).                 *)
(***************************************************************************)
EXTENDS Integers, Sequences, FiniteSets, TLC

\* ------------------------------------------------------------ bounds ----
MaxTasks == 2
MaxProc == 2

\* ----------------------------------------------------- user function ----
\* The argument of the test functions that makes them raise.
BadArg == 7
\* print(e) of the caught exception, as a token of the task's output.
ErrTok == 99

\* A value that argList may hold: a tuple (elems are its elements, which
\* are numbers) or a single number v (elems is <<v>>).
Scalar(v) == [tuple |-> FALSE, elems |-> <<v>>]
TupleOf(s) == [tuple |-> TRUE, elems |-> s]
ArgUnits == {Scalar(1), Scalar(BadArg), TupleOf(<<1, 2>>)}

\* The unit is passed as it is, a tuple too.
NeverSpread(args) == <<args>>

\* The positional arguments of the call made by _run, a sequence of
\* values: func(*args) for a tuple (line 86), func(args) otherwise
\* (line 88).
PosArgs(args) ==
    IF args.tuple
    THEN [k \in 1..Len(args.elems) |-> Scalar(args.elems[k])]
    ELSE <<args>>

\* The function accepts one number (_testfunc, _testprint, _testexc) or
\* two numbers (_testmultiarg).
Accepts(a) == Len(a) \in {1, 2} /\ \A k \in 1..Len(a) : ~a[k].tuple
Num(a, k) == a[k].elems[1]

\* _testexc raises ValueError and a call that the function does not
\* accept raises TypeError; the others return.
FuncRaises(a) == ~Accepts(a) \/ (Len(a) = 1 /\ Num(a, 1) = BadArg)
\* _testfunc/_testprint: v * 2;  _testmultiarg: v1*v1 + v2*v2.
FuncValue(a) ==
    IF ~Accepts(a) THEN 0
    ELSE IF Len(a) = 1 THEN Num(a, 1) * 2
    ELSE Num(a, 1) * Num(a, 1) + Num(a, 2) * Num(a, 2)
\* Number of writes to stdout/stderr the function makes before it ends:
\* _testprint and _testexc print, _testmultiarg does not.
FuncWrites(a) ==
    IF Accepts(a) /\ Len(a) = 1
    THEN (IF Num(a, 1) = BadArg THEN 1 ELSE 2)
    ELSE 0

\* ------------------------------------------------------------ values ----
NoErr == [kind |-> "none", idx |-> 0]
TaskError(i) == [kind |-> "TaskError", idx |-> i]
TimeoutError == [kind |-> "TimeoutError", idx |-> 0]
KeyboardInterrupt == [kind |-> "KeyboardInterrupt", idx |-> 0]
PoolError == [kind |-> "PoolError", idx |-> 0]
UnboundLocalError == [kind |-> "UnboundLocalError", idx |-> 0]
PoolStillRunning == [kind |-> "ValueError", idx |-> 0]

Unfilled == [tag |-> "unfilled", v |-> 0]
NoneVal == [tag |-> "None", v |-> 0]
Val(n) == [tag |-> "value", v |-> n]

VARIABLES
    argList,      \* the argument list of the call
    nproc,        \* the worker count
    raiseEnabled, \* raiseExceptions
    pc,           \* the statement of run that executes next
    handler,      \* the SIGINT handler of the calling process
    poolBound,    \* the local variable pool is bound
    poolState,    \* Pool._state
    exc,          \* the exception propagating in run
    primary,      \* the first exception raised in run
    retval,       \* the value of the pending return statement
    terminated,   \* pool.terminate() has killed the workers
    joinCalled,   \* pool.join() has been called
    discarded,    \* a SIGINT arrived under SIG_IGN and was discarded
    submitted,    \* map_async has queued the tasks
    value,        \* MapResult._value
    numberLeft,   \* MapResult._number_left
    mapErr,       \* the stored exception of the MapResult
    alive,        \* alive[w]: worker process w exists
    cur,          \* cur[w]: the task worker w is running, 0 when idle
    streams,      \* streams[w]: what sys.stdout and sys.stderr of worker w are
    tstate,       \* tstate[i]: the position of task i in _runBuffered
    tres,         \* tres[i]: what _runBuffered hands back for task i
    buf,          \* buf[i]: the contents of the temporary file of task i
    written,      \* written[i]: the writes the function of task i has made
    calls,        \* calls[i]: the calls of the function made for task i, each
                  \* the sequence of its positional arguments
    console,      \* the real standard output
    flushes,      \* flushes[i]: the writes of the log of task i to the real stdout
    completed     \* the tasks in the order their results reached the pool

vars == <<argList, nproc, raiseEnabled, pc, handler, poolBound,
          poolState, exc, primary, retval, terminated, joinCalled,
          discarded, submitted, value, numberLeft, mapErr, alive, cur, streams, tstate,
          tres, buf, written, calls, console, flushes, completed>>

config == <<argList, nproc, raiseEnabled>>
coord == <<pc, handler, poolBound, poolState, exc, primary, retval,
           terminated, joinCalled, discarded>>
mapres == <<submitted, value, numberLeft, mapErr, completed>>
workers == <<alive, cur, streams>>
tasks == <<tstate, tres, buf, written, calls, console, flushes>>

NTasks == Len(argList)
Tasks == 1..NTasks
Workers == 1..nproc

RECURSIVE SeqsUpTo(_, _)
SeqsUpTo(S, n) ==
    IF n = 0 THEN {<<>>}
    ELSE LET shorter == SeqsUpTo(S, n - 1)
         IN shorter \cup {Append(s, x) : s \in {t \in shorter : Len(t) = n - 1}, x \in S}

\* sys.stdout and sys.stderr of a process: the streams it was started
\* with, or the temporary file of _runBuffered (lines 59-60).
OrigStreams == [stdout |-> "orig", stderr |-> "orig"]
TmpStreams == [stdout |-> "tmp", stderr |-> "tmp"]

\* The state in which run is entered, for the arguments it was given.
InitState ==
    /\ pc = "sigign"
    /\ handler = "orig"
    /\ poolBound = FALSE
    /\ poolState = "none"
    /\ exc = NoErr
    /\ primary = NoErr
    /\ retval = <<>>
    /\ terminated = FALSE
    /\ joinCalled = FALSE
    /\ discarded = FALSE
    /\ submitted = FALSE
    /\ value = <<>>
    /\ numberLeft = 0
    /\ mapErr = NoErr
    /\ alive = [w \in 1..nproc |-> FALSE]
    /\ cur = [w \in 1..nproc |-> 0]
    /\ tstate = [i \in 1..Len(argList) |-> "new"]
    /\ tres = [i \in 1..Len(argList) |-> Unfilled]
    /\ buf = [i \in 1..Len(argList) |-> <<>>]
    /\ written = [i \in 1..Len(argList) |-> 0]
    /\ calls = [i \in 1..Len(argList) |-> <<>>]
    /\ streams = [w \in 1..nproc |-> OrigStreams]
    /\ flushes = [i \in 1..Len(argList) |-> 0]
    /\ console = <<>>
    /\ completed = <<>>

Init ==
    /\ argList \in SeqsUpTo(ArgUnits, MaxTasks)
    /\ nproc \in 1..MaxProc
    /\ raiseEnabled \in BOOLEAN
    /\ InitState

\* ------------------------------------------------------- coordinator ----
\* An exception e starts to propagate in run; the first one is the primary.
Raise(e) ==
    /\ exc' = e
    /\ primary' = IF primary = NoErr THEN e ELSE primary

\* run leaves its finally clause (line 45): it returns the pending value
\* when no exception propagates and raises the exception otherwise.
Leave == pc' = "done"

\* How run has ended.
outcome ==
    IF pc # "done" THEN "none"
    ELSE IF exc = NoErr THEN "returned" ELSE "raised"

\* get() does not wait for the tasks.
ReadyAtOnce == TRUE

\* MapResult: the list of results is ready when every task has reported.
Ready == numberLeft = 0

\* pool.terminate() kills every worker; the task a worker was running
\* stops where it is ("lost": its output was written, its result is not
\* handed back).
KilledState(i) ==
    IF tstate[i] \in {"running", "finally"} THEN "killed"
    ELSE IF tstate[i] = "exited" THEN "lost"
    ELSE tstate[i]

KillWorkers ==
    /\ alive' = [w \in Workers |-> FALSE]
    /\ cur' = [w \in Workers |-> 0]
    /\ streams' = [w \in Workers |-> OrigStreams]
    /\ tstate' = [i \in Tasks |-> KilledState(i)]

\* The handler is left as the caller had it.
SigKept == "orig"

\* line 33: the handler installed before the pool is created,
\* signal.SIG_IGN.
SigIgn == "ign"

\* line 33: origHandler = signal.signal(SIGINT, SIG_IGN)
SigIgnore ==
    /\ pc = "sigign"
    /\ handler' = SigIgn
    /\ pc' = "mkpool"
    /\ UNCHANGED <<config, poolBound, poolState, exc, primary, retval, terminated, joinCalled, discarded, mapres, workers, tasks>>

\* line 34: pool = multiprocessing.Pool(nproc)
MkPool ==
    /\ pc = "mkpool"
    /\ poolBound' = TRUE
    /\ poolState' = "RUN"
    /\ alive' = [w \in Workers |-> TRUE]
    /\ pc' = "sigrestore"
    /\ UNCHANGED <<config, handler, exc, primary, retval, terminated,
                   joinCalled, discarded, mapres, cur, streams, tasks>>

\* line 34: the Pool constructor raises; pool stays unbound.
MkPoolFail ==
    /\ pc = "mkpool"
    /\ Raise(PoolError)
    /\ pc' = "terminate"
    /\ UNCHANGED <<config, handler, poolBound, poolState, retval, terminated, joinCalled, discarded, mapres, workers, tasks>>

\* line 35: signal.signal(SIGINT, origHandler)
SigRestore ==
    /\ pc = "sigrestore"
    /\ handler' = "orig"
    /\ pc' = "submit"
    /\ UNCHANGED <<config, poolBound, poolState, exc, primary, retval, terminated, joinCalled, discarded, mapres, workers, tasks>>

\* The tasks of argList enter the pool's queue.
Queue ==
    /\ submitted' = TRUE
    /\ value' = [i \in Tasks |-> Unfilled]
    /\ numberLeft' = NTasks
    /\ tstate' = [i \in Tasks |-> "queued"]

\* lines 36-37: runner = partial(_run, ...); mapResult = pool.map_async(...)
Submit ==
    /\ pc = "submit"
    /\ Queue
    /\ pc' = "wait"
    /\ UNCHANGED <<config, handler, poolBound, poolState, exc, primary, retval,
                   terminated, joinCalled, discarded, mapErr, completed,
                   workers, tres, buf, written, calls, console, flushes>>

\* line 38: mapResult.get(timeout) returns the list of results.
GetReturn ==
    /\ pc = "wait"
    /\ Ready
    /\ mapErr = NoErr
    /\ retval' = value
    /\ pc' = "close"
    /\ UNCHANGED <<config, handler, poolBound, poolState, exc, primary,
                   terminated, joinCalled, discarded, mapres, workers, tasks>>

\* line 38: mapResult.get(timeout) raises the stored exception of a task:
\* as soon as a task has failed (Python 2 sets the result ready then) or
\* when every task has reported (Python >= 3.8), which is one of the
\* moments the first allows.
GetRaise ==
    /\ pc = "wait"
    /\ mapErr # NoErr
    /\ Raise(mapErr)
    /\ pc' = "terminate"
    /\ UNCHANGED <<config, handler, poolBound, poolState, retval, terminated, joinCalled, discarded, mapres, workers, tasks>>

\* The call waits without a timeout (timeout=None).
TimeoutNone == FALSE

\* The timeout that run passes to mapResult.get is a number of seconds
\* (line 10: timeout=3600 by default), so the wait of line 38 is bounded.
TimeoutFinite == TRUE

\* line 38: the timeout elapses before every task has reported.
GetTimeout ==
    /\ pc = "wait"
    /\ TimeoutFinite
    /\ ~Ready
    /\ Raise(TimeoutError)
    /\ pc' = "terminate"
    /\ UNCHANGED <<config, handler, poolBound, poolState, retval, terminated, joinCalled, discarded, mapres, workers, tasks>>

\* lines 39-40: pool.close(); return results (the finally clause follows).
Close ==
    /\ pc = "close"
    /\ poolState' = "CLOSE"
    /\ pc' = "join"
    /\ UNCHANGED <<config, handler, poolBound, exc, primary, retval, terminated, joinCalled, discarded, mapres, workers, tasks>>

\* line 39: pool.close() raises.
CloseFail ==
    /\ pc = "close"
    /\ Raise(PoolError)
    /\ pc' = "terminate"
    /\ UNCHANGED <<config, handler, poolBound, poolState, retval, terminated, joinCalled, discarded, mapres, workers, tasks>>

\* pool.join() is not in a finally clause: the except clause leaves run.
AfterExceptLeaves == "done"

\* The statement that follows the except clause (lines 41-43): the
\* finally clause, whether the clause re-raised or raised itself.
AfterExcept == "join"

\* lines 42-43: pool.terminate(); raise.  With pool unbound the name
\* lookup raises UnboundLocalError in place of the propagating exception.
Terminate ==
    /\ pc = "terminate"
    /\ IF poolBound
       THEN /\ poolState' = "TERMINATE"
            /\ terminated' = TRUE
            /\ KillWorkers
            /\ UNCHANGED <<exc, primary>>
       ELSE /\ Raise(UnboundLocalError)
            /\ UNCHANGED <<poolState, terminated, workers, tstate>>
    /\ pc' = AfterExcept
    /\ UNCHANGED <<config, handler, poolBound, retval, joinCalled,
                   discarded, mapres, tres, buf, written, calls, console, flushes>>

\* line 42: pool.terminate() raises before it has done anything.
TerminateFail ==
    /\ pc = "terminate"
    /\ poolBound
    /\ Raise(PoolError)
    /\ pc' = AfterExcept
    /\ UNCHANGED <<config, handler, poolBound, poolState, retval, terminated, joinCalled, discarded, mapres, workers, tasks>>

\* line 45: pool.join() is called.  It raises UnboundLocalError when pool
\* is unbound and ValueError when the pool is still running; otherwise it
\* blocks until the workers have exited.
JoinCall ==
    /\ pc = "join"
    /\ IF ~poolBound
       THEN /\ Raise(UnboundLocalError)
            /\ Leave
            /\ UNCHANGED joinCalled
       ELSE /\ joinCalled' = TRUE
            /\ IF poolState = "RUN"
               THEN Raise(PoolStillRunning) /\ Leave
               ELSE pc' = "joining" /\ UNCHANGED <<exc, primary>>
    /\ UNCHANGED <<config, handler, poolBound, poolState, retval, terminated,
                   discarded, mapres, workers, tasks>>

\* line 45: pool.join() returns; run returns or raises.
JoinReturn ==
    /\ pc = "joining"
    /\ \A w \in Workers : ~alive[w]
    /\ Leave
    /\ UNCHANGED <<config, handler, poolBound, poolState, exc, primary, retval,
                   terminated, joinCalled, discarded, mapres, workers, tasks>>

\* line 45: pool.join() raises.
JoinFail ==
    /\ pc = "joining"
    /\ Raise(PoolError)
    /\ Leave
    /\ UNCHANGED <<config, handler, poolBound, poolState, retval, terminated,
                   joinCalled, discarded, mapres, workers, tasks>>

\* ------------------------------------------------------------ SIGINT ----
\* SIGINT arrives while the caller's handler is installed: the statement
\* that executes raises KeyboardInterrupt.

\* SIGINT raises KeyboardInterrupt whatever handler is installed.
SigintAlwaysRaises(h) == TRUE

\* What SIGINT does under handler h: the caller's handler raises
\* KeyboardInterrupt in the main thread, SIG_IGN (line 33) discards the
\* signal.
SigintRaises(h) == h = "orig"

\* SIGINT arrives while the pool is being constructed and until line 35
\* has restored the handler (lines 34-35).
SigintConstruction ==
    /\ pc \in {"mkpool", "sigrestore"}
    /\ ~discarded
    /\ IF SigintRaises(handler)
       THEN /\ Raise(KeyboardInterrupt)
            /\ pc' = "terminate"
            /\ UNCHANGED discarded
       ELSE /\ discarded' = TRUE
            /\ UNCHANGED <<pc, exc, primary>>
    /\ UNCHANGED <<config, handler, poolBound, poolState, retval, terminated,
                   joinCalled, mapres, workers, tasks>>

\* before line 33 has replaced the handler
InterruptStart ==
    /\ pc = "sigign"
    /\ SigintRaises(handler)
    /\ Raise(KeyboardInterrupt)
    /\ pc' = "terminate"
    /\ UNCHANGED <<config, handler, poolBound, poolState, retval, terminated, joinCalled, discarded, mapres, workers, tasks>>

\* lines 36-37, before or after map_async has queued the tasks
InterruptSubmit ==
    /\ pc = "submit"
    /\ SigintRaises(handler)
    /\ Raise(KeyboardInterrupt)
    /\ pc' = "terminate"
    /\ \/ Queue
       \/ UNCHANGED <<submitted, value, numberLeft, tstate>>
    /\ UNCHANGED <<config, handler, poolBound, poolState, retval, terminated,
                   joinCalled, discarded, mapErr, completed, workers, tres,
                   buf, written, calls, console, flushes>>

\* line 38, in mapResult.get(timeout)
InterruptWait ==
    /\ pc = "wait"
    /\ SigintRaises(handler)
    /\ Raise(KeyboardInterrupt)
    /\ pc' = "terminate"
    /\ UNCHANGED <<config, handler, poolBound, poolState, retval, terminated, joinCalled, discarded, mapres, workers, tasks>>

\* lines 39-40, before or after pool.close() has taken effect
InterruptClose ==
    /\ pc = "close"
    /\ SigintRaises(handler)
    /\ Raise(KeyboardInterrupt)
    /\ pc' = "terminate"
    /\ poolState' \in {poolState, "CLOSE"}
    /\ UNCHANGED <<config, handler, poolBound, retval, terminated,
                   joinCalled, discarded, mapres, workers, tasks>>

\* lines 42-43, in the except clause: before or after pool.terminate()
\* has taken effect
InterruptTerminate ==
    /\ pc = "terminate"
    /\ SigintRaises(handler)
    /\ Raise(KeyboardInterrupt)
    /\ pc' = AfterExcept
    /\ \/ /\ poolBound
          /\ poolState' = "TERMINATE"
          /\ terminated' = TRUE
          /\ KillWorkers
       \/ UNCHANGED <<poolState, terminated, workers, tstate>>
    /\ UNCHANGED <<config, handler, poolBound, retval, joinCalled,
                   discarded, mapres, tres, buf, written, calls, console, flushes>>

\* line 45, in the finally clause: pool.join() is blocked
InterruptJoin ==
    /\ pc = "joining"
    /\ SigintRaises(handler)
    /\ Raise(KeyboardInterrupt)
    /\ Leave
    /\ UNCHANGED <<config, handler, poolBound, poolState, retval, terminated,
                   joinCalled, discarded, mapres, workers, tasks>>

\* ----------------------------------------------------------- workers ----
Args(i) == PosArgs(argList[i])

\* A worker takes a task whatever it is doing.
AlwaysIdle(w) == TRUE

\* A worker process runs one task at a time: it takes the next one from
\* the pool's queue when it has handed back the previous one.
Idle(w) == cur[w] = 0

\* A task that a worker is running can be handed out again.
NextQueuedOrRunning(i) ==
    /\ tstate[i] \in {"queued", "running"}
    /\ \A j \in Tasks : j < i => tstate[j] # "queued"

\* The pool hands out the queued tasks in submission order.
NextQueued(i) ==
    /\ tstate[i] = "queued"
    /\ \A j \in Tasks : j < i => tstate[j] # "queued"

\* The streams are left as they are.
NotRedirected == FALSE

\* lines 59-60: while the function runs, sys.stdout and sys.stderr are
\* the temporary file.
Redirected == TRUE

\* lines 84-88 and 54-61: worker w takes task i; _run builds the call,
\* _runBuffered opens the temporary file, redirects sys.stdout and
\* sys.stderr to it and calls the function.
TaskStart(w, i) ==
    /\ alive[w]
    /\ Idle(w)
    /\ submitted
    /\ NextQueued(i)
    /\ cur' = [cur EXCEPT ![w] = i]
    /\ tstate' = [tstate EXCEPT ![i] = "running"]
    /\ calls' = [calls EXCEPT ![i] = Append(@, Args(i))]
    /\ streams' = [streams EXCEPT ![w] = IF Redirected THEN TmpStreams ELSE @]
    /\ UNCHANGED <<config, coord, mapres, alive, tres, buf, written, console, flushes>>

\* line 61: the function writes to sys.stdout or sys.stderr.
TaskPrint(w) ==
    LET i == cur[w] IN
    /\ alive[w]
    /\ i # 0
    /\ tstate[i] = "running"
    /\ written[i] < FuncWrites(Args(i))
    /\ written' = [written EXCEPT ![i] = @ + 1]
    /\ IF streams[w].stdout = "tmp"
       THEN /\ buf' = [buf EXCEPT ![i] = Append(@, <<i, written[i] + 1>>)]
            /\ UNCHANGED console
       ELSE /\ console' = Append(console, <<i, written[i] + 1>>)
            /\ UNCHANGED buf
    /\ UNCHANGED <<config, coord, mapres, workers, tstate, tres, calls, flushes>>

Raised(i) == [tag |-> "raise", v |-> i]

\* The exception is printed and swallowed whatever raiseEnabled is.
HandbackSwallowed(i) ==
    IF FuncRaises(Args(i)) THEN NoneVal ELSE Val(FuncValue(Args(i)))

\* The exception is re-raised whatever raiseEnabled is.
HandbackReraised(i) ==
    IF FuncRaises(Args(i)) THEN Raised(i) ELSE Val(FuncValue(Args(i)))

\* What _runBuffered hands back for task i: the return value of the
\* function (lines 61-62), its exception re-raised (lines 70-72) or None
\* after the exception was printed (line 74).
Handback(i) ==
    IF FuncRaises(Args(i))
    THEN (IF raiseEnabled THEN Raised(i) ELSE NoneVal)
    ELSE Val(FuncValue(Args(i)))

\* lines 61-62: the function returns.
TaskReturn(w) ==
    LET i == cur[w] IN
    /\ alive[w]
    /\ i # 0
    /\ tstate[i] = "running"
    /\ written[i] = FuncWrites(Args(i))
    /\ ~FuncRaises(Args(i))
    /\ tres' = [tres EXCEPT ![i] = Handback(i)]
    /\ tstate' = [tstate EXCEPT ![i] = "finally"]
    /\ UNCHANGED <<config, coord, mapres, workers, buf, written, calls, console, flushes>>

\* print(e) writes to the stream the worker was started with.
ErrorStreamReal(w) == "orig"

\* line 74: print(e) writes to what sys.stdout is in the except clause,
\* which runs before the finally clause restores the streams.
ErrorStream(w) == streams[w].stdout

\* lines 63-74: the function raises.  With raiseEnabled the exception is
\* re-raised after the delay; otherwise print(e) writes it to sys.stdout,
\* which is still the temporary file.
TaskRaise(w) ==
    LET i == cur[w] IN
    /\ alive[w]
    /\ i # 0
    /\ tstate[i] = "running"
    /\ written[i] = FuncWrites(Args(i))
    /\ FuncRaises(Args(i))
    /\ tres' = [tres EXCEPT ![i] = Handback(i)]
    /\ tstate' = [tstate EXCEPT ![i] = "finally"]
    /\ IF Handback(i) = Raised(i)
       THEN UNCHANGED <<buf, console>>
       ELSE IF ErrorStream(w) = "tmp"
            THEN /\ buf' = [buf EXCEPT ![i] = Append(@, <<i, ErrTok>>)]
                 /\ UNCHANGED console
            ELSE /\ console' = Append(console, <<i, ErrTok>>)
                 /\ UNCHANGED buf
    /\ UNCHANGED <<config, coord, mapres, workers, written, calls, flushes>>

\* The streams stay the temporary file.
StreamsKept == [stdout |-> "tmp", stderr |-> "tmp"]

\* lines 57-58 and 76-77: the streams that were saved on entry and are
\* assigned back in the finally clause.
SavedStreams == OrigStreams

\* The log is put in front of what the console holds.
FlushInFront(con, log) == log \o con

\* line 81: print(log, end='') adds the log at the end of the real stdout.
FlushTo(con, log) == con \o log

\* lines 75-82: the finally clause restores the streams, reads the
\* temporary file back and prints it to the real stdout in one write
\* (print(log, end='') and a flush, taken as one write of the stream).
TaskFinally(w) ==
    LET i == cur[w] IN
    /\ alive[w]
    /\ i # 0
    /\ tstate[i] = "finally"
    /\ streams' = [streams EXCEPT ![w] = SavedStreams]
    /\ console' = FlushTo(console, buf[i])
    /\ flushes' = [flushes EXCEPT ![i] = @ + 1]
    /\ tstate' = [tstate EXCEPT ![i] = "exited"]
    /\ UNCHANGED <<config, coord, mapres, alive, cur, tres, buf, written, calls>>

\* The result goes to the next free slot, in the order of completion.
StoreInCompletionOrder(val, i, r) == [val EXCEPT ![Len(completed) + 1] = r]

\* MapResult._set: the result of task i goes to slot i.
StoreResult(val, i, r) == [val EXCEPT ![i] = r]

\* The worker hands the outcome of its task back to the pool, whose
\* result handler records it in the MapResult waited on at line 38.
Deliver(w) ==
    LET i == cur[w] IN
    /\ alive[w]
    /\ i # 0
    /\ tstate[i] = "exited"
    /\ tstate' = [tstate EXCEPT ![i] = "delivered"]
    /\ cur' = [cur EXCEPT ![w] = 0]
    /\ completed' = Append(completed, i)
    /\ numberLeft' = numberLeft - 1
    /\ IF tres[i].tag = "raise"
       THEN /\ mapErr' = IF mapErr = NoErr THEN TaskError(tres[i].v) ELSE mapErr
            /\ UNCHANGED value
       ELSE /\ value' = StoreResult(value, i, tres[i])
            /\ UNCHANGED mapErr
    /\ UNCHANGED <<config, coord, submitted, alive, streams, tres, buf, written, calls,
                   console, flushes>>

\* After pool.close() an idle worker exits when the queue is empty.
WorkerExit(w) ==
    /\ alive[w]
    /\ cur[w] = 0
    /\ poolState = "CLOSE"
    /\ \A i \in Tasks : tstate[i] # "queued"
    /\ alive' = [alive EXCEPT ![w] = FALSE]
    /\ UNCHANGED <<config, coord, mapres, cur, streams, tasks>>

Next ==
    \/ SigIgnore
    \/ MkPool
    \/ MkPoolFail
    \/ SigRestore
    \/ Submit
    \/ GetReturn
    \/ GetRaise
    \/ GetTimeout
    \/ Close
    \/ CloseFail
    \/ Terminate
    \/ TerminateFail
    \/ JoinCall
    \/ JoinReturn
    \/ JoinFail
    \/ InterruptStart
    \/ InterruptSubmit
    \/ InterruptWait
    \/ InterruptClose
    \/ InterruptTerminate
    \/ InterruptJoin
    \/ \E w \in Workers : \E i \in Tasks : TaskStart(w, i)
    \/ \E w \in Workers : TaskPrint(w)
    \/ \E w \in Workers : TaskReturn(w)
    \/ \E w \in Workers : TaskRaise(w)
    \/ \E w \in Workers : TaskFinally(w)
    \/ \E w \in Workers : Deliver(w)
    \/ \E w \in Workers : WorkerExit(w)

Spec == Init /\ [][Next]_vars

\* The statements of run in the calling process that do not depend on a
\* fault or a signal.
CoordinatorStep ==
    \/ SigIgnore
    \/ MkPool
    \/ SigRestore
    \/ Submit
    \/ GetReturn
    \/ GetRaise
    \/ GetTimeout
    \/ Close
    \/ Terminate
    \/ JoinCall
    \/ JoinReturn

\* The calling process keeps executing its statements, the timeout of the
\* wait elapses, and a worker that has nothing left to do exits.  Nothing
\* is assumed about the steps of a task: the user function may run for
\* ever.
SpecFair ==
    /\ Spec
    /\ WF_vars(CoordinatorStep)
    /\ WF_vars(\E w \in Workers : WorkerExit(w))

\* Argument units of every shape: a number, the empty tuple, tuples of
\* one and two elements (lines 111 and 105 give (1,2), (3,4) and 9).
CallUnits ==
    {Scalar(9), TupleOf(<<>>), TupleOf(<<2>>), TupleOf(<<1, 2>>), TupleOf(<<3, 4>>)}

\* The calls of run with one worker and argument units of every shape.
InitCall ==
    /\ argList \in SeqsUpTo(CallUnits, MaxTasks)
    /\ nproc = 1
    /\ raiseEnabled \in BOOLEAN
    /\ InitState

SpecCall == InitCall /\ [][Next]_vars

\* The call with a SIGINT that may arrive during the construction of the
\* pool.
NextSigint == Next \/ SigintConstruction

SpecSigint == Init /\ [][NextSigint]_vars

\* ------------------------------------------------------------ claims ----
\* What the call for argList[i] yields when it is run to its end.
ExpectedResult(i) ==
    IF FuncRaises(Args(i)) THEN NoneVal ELSE Val(FuncValue(Args(i)))

\* The function of task i has run to its end and raised.
FunctionRaised(i) == FuncRaises(Args(i)) /\ tres[i] # Unfilled

\* C1: whenever run returns normally the returned list has len(argList)
\* entries and entry i is the outcome of the task built from argList[i],
\* whatever the order in which the workers finished.
C1_ResultsInInputOrder ==
    outcome = "returned" =>
        /\ Len(retval) = Len(argList)
        /\ \A i \in Tasks : retval[i] = ExpectedResult(i)

\* run has returned although the second task finished before the first.
C1_Witness ==
    /\ outcome = "returned"
    /\ completed = <<2, 1>>
    /\ ExpectedResult(1) # ExpectedResult(2)

\* C2: run ends by returning a list with a filled slot for every task,
\* each of them completed, or by raising one error; it never returns a
\* list with a slot of a task that was not completed.
C2_CompleteOrError ==
    pc = "done" =>
        \/ /\ outcome = "returned"
           /\ exc = NoErr
           /\ Len(retval) = NTasks
           /\ \A i \in Tasks : retval[i] # Unfilled /\ tstate[i] = "delivered"
        \/ /\ outcome = "raised"
           /\ exc # NoErr

\* run has raised the timeout error with a task killed before its end.
C2_Witness ==
    /\ outcome = "raised"
    /\ exc = TimeoutError
    /\ \E i \in Tasks : tstate[i] = "killed"
    /\ \E i \in Tasks : tstate[i] = "delivered"

C4_LogAndContinue ==
    ~raiseEnabled =>
        /\ mapErr = NoErr
        /\ exc.kind # "TaskError"
        /\ outcome = "returned" =>
               /\ Len(retval) = NTasks
               /\ \A i \in Tasks :
                      retval[i] = IF FunctionRaised(i)
                                  THEN NoneVal
                                  ELSE Val(FuncValue(Args(i)))

\* run has returned under raiseExceptions=False with a failed task and a
\* successful one.
C4_Witness ==
    /\ ~raiseEnabled
    /\ outcome = "returned"
    /\ \E i \in Tasks : FunctionRaised(i) /\ retval[i] = NoneVal
    /\ \E i \in Tasks : ~FuncRaises(Args(i)) /\ retval[i].tag = "value"

\* C5 as stated: when the wait of line 38 timed out, run raises the
\* timeout error to its caller.
C5_TimeoutReachesCaller ==
    (pc = "done" /\ primary = TimeoutError) =>
        outcome = "raised" /\ exc = TimeoutError

\* C6 as stated: whenever run raises a timeout error or KeyboardInterrupt
\* after the pool was created, pool.terminate() has killed the workers.
C6_TerminatedBeforeSurfacing ==
    (outcome = "raised" /\ poolBound /\ exc \in {TimeoutError, KeyboardInterrupt}) =>
        terminated

\* C7 as stated: when run has returned or raised, none of its workers is
\* alive.
C7_NoWorkerAlive ==
    pc = "done" => \A w \in Workers : ~alive[w]

C9_PrimaryNotMasked ==
    (pc = "done" /\ primary # NoErr) => exc = primary

\* The positions of the console that hold output of task i.
PositionsOf(i) == {p \in 1..Len(console) : console[p][1] = i}

\* Everything task i writes while it runs, in order: the writes of the
\* function, then the printed exception under raiseExceptions=False.
FullOutput(i) ==
    [k \in 1..FuncWrites(Args(i)) |-> <<i, k>>]
        \o (IF FuncRaises(Args(i)) /\ ~raiseEnabled THEN <<<<i, ErrTok>>>> ELSE <<>>)

\* Task i has left _runBuffered.
Finished(i) == tstate[i] \in {"exited", "delivered", "lost"}

\* C10: the output of a finished task is on the real stdout exactly once,
\* complete and as one contiguous block, and no output of a task is on
\* the real stdout before the task has finished.
C10_OutputOnceContiguous ==
    \A i \in Tasks :
        IF Finished(i)
        THEN \E p \in 0..Len(console) :
                 /\ p + Len(FullOutput(i)) <= Len(console)
                 /\ PositionsOf(i) = (p + 1)..(p + Len(FullOutput(i)))
                 /\ \A k \in 1..Len(FullOutput(i)) : console[p + k] = FullOutput(i)[k]
        ELSE PositionsOf(i) = {}

\* The block of one task is on the console while another task, running
\* at the same time, has made a part of its writes.
C10_Witness ==
    /\ \E i \in Tasks : Finished(i) /\ Len(FullOutput(i)) = 2 /\ PositionsOf(i) = {1, 2}
    /\ \E j \in Tasks : tstate[j] = "running" /\ written[j] = 1 /\ Len(FullOutput(j)) = 2

\* The blocks on the console are in the order of the argument list.
SubmissionOrdered ==
    \A p, q \in 1..Len(console) : p < q => console[p][1] <= console[q][1]

\* C11 as stated: for i < j the block of task i is on the console before
\* the block of task j.
C11_Original == SubmissionOrdered

\* C11 amended: the blocks are on the console in the order in which the
\* tasks finish: the block of a task is added at the end of the console at
\* the moment the task leaves _runBuffered, and the console changes at no
\* other moment.  With one worker this is the order of the argument list.
C11_CompletionOrder ==
    /\ [](nproc = 1 => SubmissionOrdered)
    /\ [][/\ \A i \in Tasks :
                 (~Finished(i) /\ Finished(i)') => console' = console \o FullOutput(i)
          /\ console' # console => \E i \in Tasks : ~Finished(i) /\ Finished(i)'
         ]_vars

\* The block of the second task is on the console before the block of
\* the first.
C11_Witness ==
    \E p, q \in 1..Len(console) : p < q /\ console[p][1] = 2 /\ console[q][1] = 1

\* C12 as stated: a SIGINT delivered while the pool is being constructed
\* is delivered once the pool exists and the handler is restored, so that
\* KeyboardInterrupt is raised in run.
C12_Original ==
    (pc = "done" /\ discarded /\ poolBound) => primary = KeyboardInterrupt

\* C12 amended: a SIGINT delivered while the pool is being constructed is
\* discarded: the step that receives it changes nothing of the call, and
\* no KeyboardInterrupt is raised during the construction.
C12_SigintDiscarded ==
    /\ [][discarded' # discarded =>
            UNCHANGED <<config, pc, handler, poolBound, poolState, exc, primary,
                        retval, terminated, joinCalled, mapres, workers, tasks>>]_vars
    /\ [][(pc \in {"mkpool", "sigrestore"}) => (exc' # KeyboardInterrupt)]_vars

\* run has returned its results although a SIGINT arrived during the
\* construction of the pool.
C12_Witness ==
    /\ outcome = "returned"
    /\ discarded
    /\ NTasks = 2

TestRunArgs == <<9, 3, 8, 1, 33>>

\* C14: the function is called with the elements of the unit as its
\* positional arguments exactly when the unit is a tuple (k elements give
\* a k-argument call, the empty tuple a call without arguments) and with
\* the unit as its single argument otherwise; (1,2),(3,4) give 5, 25 and
\* 9,3,8,1,33 give 18,6,16,2,66.
C14_SpreadsTuples ==
    /\ \A i \in Tasks : \A c \in 1..Len(calls[i]) :
          LET a == calls[i][c]
              u == argList[i]
          IN  IF u.tuple
              THEN /\ Len(a) = Len(u.elems)
                   /\ \A k \in 1..Len(a) : a[k] = Scalar(u.elems[k])
              ELSE a = <<u>>
    /\ (outcome = "returned" /\ argList = <<TupleOf(<<1, 2>>), TupleOf(<<3, 4>>)>>)
          => retval = <<Val(5), Val(25)>>
    /\ [k \in 1..5 |-> FuncValue(PosArgs(Scalar(TestRunArgs[k])))]
          = <<18, 6, 16, 2, 66>>

\* run has returned 5 for (1,2) after a call without arguments for ().
C14_Witness ==
    /\ outcome = "returned"
    /\ argList = <<TupleOf(<<>>), TupleOf(<<1, 2>>)>>
    /\ calls[1] = << <<>> >>
    /\ Len(calls[2][1]) = 2
    /\ retval[2] = Val(5)


\* C15: the interrupt handler is set to ignore before the pool is created,
\* the pool is created before the caller's handler is restored, and the
\* handler is restored before any task is submitted, so that from
\* submission onward the caller's handler is the one installed.
C15_StartupOrder ==
    /\ [][(~poolBound /\ poolBound') => (handler = "ign" /\ handler' = "ign")]_vars
    /\ [][(handler = "ign" /\ handler' = "orig") => (poolBound /\ ~submitted)]_vars
    /\ [][(~submitted /\ submitted') => (poolBound /\ handler = "orig")]_vars
    /\ [](submitted => (poolBound /\ handler = "orig"))

\* The tasks have been submitted to a pool created with SIGINT ignored,
\* and the caller's handler is installed again.
C15_Witness ==
    /\ pc = "wait"
    /\ submitted
    /\ poolBound
    /\ handler = "orig"
    /\ NTasks > 0


\* Task i has left the capture scope of _runBuffered.
LeftScope(i) == tstate[i] \in {"exited", "delivered", "lost"}

\* C16: on every exit path of a task's capture scope (the function
\* returned, raised under propagate, raised under log-and-continue) the
\* worker's original stdout and stderr are restored and the buffer is
\* written to the real stdout exactly once, both before the result or the
\* error is handed back to the pool; after the scope the worker's streams
\* are those it had before.
C16_RestoreAndFlushOnce ==
    /\ \A i \in Tasks : flushes[i] = (IF LeftScope(i) THEN 1 ELSE 0)
    /\ \A w \in Workers :
          (alive[w] /\ (cur[w] = 0 \/ LeftScope(cur[w]))) => streams[w] = OrigStreams
    /\ \A i \in Tasks :
          tstate[i] = "delivered" =>
              /\ flushes[i] = 1
              /\ \E p \in 1..Len(console) - Len(buf[i]) + 1 :
                    SubSeq(console, p, p + Len(buf[i]) - 1) = buf[i]

\* The three exit paths: a task whose function returned and a task whose
\* function raised have both been handed back, or a function that raised
\* under log-and-continue has, each after its flush with the worker's
\* streams restored.
C16_Witness ==
    /\ \E i \in Tasks : tstate[i] = "delivered" /\ FuncRaises(Args(i)) /\ flushes[i] = 1
    /\ \E i \in Tasks : tstate[i] = "delivered" /\ ~FuncRaises(Args(i)) /\ flushes[i] = 1
    /\ \E w \in Workers : alive[w] /\ cur[w] = 0 /\ streams[w] = OrigStreams


\* The tasks whose function is executing.
Executing == {i \in Tasks : tstate[i] = "running"}

\* C17: at every moment the number of tasks whose function is executing
\* is at most the worker count, however many tasks were submitted.
C17_AtMostNprocExecuting == Cardinality(Executing) <= nproc

\* Every worker is executing a task while another task waits in the queue.
C17_Witness ==
    /\ Cardinality(Executing) = nproc
    /\ \E i \in Tasks : tstate[i] = "queued"


\* The function of task i raised and _runBuffered printed the error
\* (line 74).
ErrorLogged(i) == FuncRaises(Args(i)) /\ tres[i] = NoneVal

\* C18: under log-and-continue the text of a failing task's error is
\* printed while the output is redirected: it is the last entry of that
\* task's buffer, after what the task printed, and it is on the real
\* console only as part of the block written by the task's single flush.
C18_ErrorInsideBlock ==
    \A i \in Tasks :
        /\ ErrorLogged(i) =>
              /\ ~raiseEnabled
              /\ buf[i] = [k \in 1..FuncWrites(Args(i)) |-> <<i, k>>] \o << <<i, ErrTok>> >>
        /\ ~ErrorLogged(i) => \A k \in 1..Len(buf[i]) : buf[i][k] # <<i, ErrTok>>
        /\ LET errs == {p \in 1..Len(console) : console[p] = <<i, ErrTok>>}
           IN  IF ErrorLogged(i) /\ flushes[i] = 1
               THEN \E p \in errs :
                      /\ errs = {p}
                      /\ p >= Len(buf[i])
                      /\ SubSeq(console, p - Len(buf[i]) + 1, p) = buf[i]
               ELSE errs = {}

\* A task printed, failed under log-and-continue and was flushed: its
\* error text is on the console behind what it printed.
C18_Witness ==
    \E i \in Tasks : \E p \in 2..Len(console) :
        /\ ErrorLogged(i)
        /\ flushes[i] = 1
        /\ console[p] = <<i, ErrTok>>
        /\ console[p - 1] = <<i, FuncWrites(Args(i))>>


\* C19: on every exit path of run, the one where the construction of the
\* pool fails included, the SIGINT handler of the calling process is the
\* handler that was installed before the call.
C19_HandlerRestored == pc = "done" => handler = "orig"


\* C20: within one call of run the function is invoked at most once for
\* each index of argList, and when run returns normally it has been
\* invoked exactly once for every index.
C20_CalledOnce ==
    /\ \A i \in Tasks : Len(calls[i]) <= 1
    /\ outcome = "returned" => \A i \in Tasks : Len(calls[i]) = 1

\* run has returned the results of two tasks, each called once.
C20_Witness ==
    /\ outcome = "returned"
    /\ NTasks = 2
    /\ \A i \in Tasks : Len(calls[i]) = 1 /\ calls[i][1] = Args(i)

====
